---------------------------- MODULE Spec2Model ----------------------------
(***************************************************************************)
(* A model of src/src/rp_handler.py: the job handler of the ComfyUI        *)
(* worker.  One handler(job) invocation is a sequential state machine      *)
(* whose steps are cut at the calls to the external collaborators          *)
(* (requests.get, urlopen, os.path.exists, rp_upload, NudeDetector, open). *)
(* Python strings are sequences of one-character strings, JSON values are  *)
(* tagged records, Python dicts keep their insertion order.                *)
(***************************************************************************)
EXTENDS Integers, Sequences, FiniteSets, TLC

VARIABLES
    pc,               \* position of the running function
    job,              \* handler's argument
    job_input,        \* handler local (line 164)
    workflow,         \* handler local (lines 174-179)
    cs,               \* check_server's frame: url, retries, delay, i
    comfy_job_id,     \* handler local (line 197)
    retries,          \* handler local (line 204)
    history,          \* handler local (line 207)
    output_images,    \* handler local (lines 222-229)
    local_image_path, \* handler local (line 234)
    image_url,        \* handler local (line 241)
    job_output,       \* handler local (line 165)
    result,           \* what the running function returned or raised
    net,              \* the network calls made so far, by kind, and the bodies posted
    slept,            \* the sleeps made so far, by loop
    post,             \* the post-processing calls made so far: exists, upload, detect, encode
    arg               \* the argument of a direct call of job_prop_to_bool

vars == <<pc, job, job_input, workflow, cs, comfy_job_id, retries, history, output_images,
          local_image_path, image_url, job_output, result, net, slept, post, arg>>

----------------------------------------------------------------------------
(* Bounds of the model.                                                    *)

\* The source sets COMFY_API_AVAILABLE_MAX_RETRIES = 500 (line 19) and
\* COMFY_POLLING_MAX_RETRIES = 999 (line 23); the loops that read them are
\* modelled for every budget, and checked with these scaled-down budgets.
COMFY_API_AVAILABLE_MAX_RETRIES == 2
COMFY_POLLING_MAX_RETRIES == 3
\* Largest `retries` argument of a direct call of check_server.
MaxRetriesArg == 4
\* Longest flag string drawn letter by letter for job_prop_to_bool.
MaxFlagLen == 3

\* line 17
COMFY_API_AVAILABLE_INTERVAL_MS == 50

----------------------------------------------------------------------------
(* String literals of the source.                                          *)

COMFY_HOST == <<"1", "2", "7", ".", "0", ".", "0", ".", "1", ":", "8", "1", "8", "8">>
COMFY_OUTPUT_PATH == <<"/", "c", "o", "m", "f", "y", "u", "i", "/", "o", "u", "t", "p", "u",
    "t">>
K_workflow == <<"w", "o", "r", "k", "f", "l", "o", "w">>
K_return_nsfw == <<"r", "e", "t", "u", "r", "n", "-", "n", "s", "f", "w">>
K_return_b64 == <<"r", "e", "t", "u", "r", "n", "-", "b", "6", "4">>
K_prompt == <<"p", "r", "o", "m", "p", "t">>
K_prompt_id == <<"p", "r", "o", "m", "p", "t", "_", "i", "d">>
K_outputs == <<"o", "u", "t", "p", "u", "t", "s">>
K_images == <<"i", "m", "a", "g", "e", "s">>
K_filename == <<"f", "i", "l", "e", "n", "a", "m", "e">>
K_error == <<"e", "r", "r", "o", "r">>
K_url == <<"u", "r", "l">>
K_nsfw == <<"n", "s", "f", "w">>
K_base64 == <<"b", "a", "s", "e", "6", "4">>
SIMULATED == <<"s", "i", "m", "u", "l", "a", "t", "e", "d", "_", "u", "p", "l", "o", "a", "d",
    "e", "d", "/">>
HTTP_PREFIX == <<"h", "t", "t", "p", ":", "/", "/">>
MSG_NO_INPUT == <<"n", "o", " ", "'", "i", "n", "p", "u", "t", "'", " ", "p", "r", "o", "p",
    "e", "r", "t", "y", " ", "f", "o", "u", "n", "d", " ", "o", "n", " ", "j", "o", "b", " ",
    "d", "a", "t", "a">>
MSG_NO_WORKFLOW == <<"n", "o", " ", "'", "w", "o", "r", "k", "f", "l", "o", "w", "'", " ", "p",
    "r", "o", "p", "e", "r", "t", "y", " ", "f", "o", "u", "n", "d", " ", "o", "n", " ", "j",
    "o", "b", " ", "d", "a", "t", "a">>
MSG_BAD_JSON == <<"I", "n", "v", "a", "l", "i", "d", " ", "J", "S", "O", "N", " ", "f", "o",
    "r", "m", "a", "t", " ", "i", "n", " ", "'", "w", "o", "r", "k", "f", "l", "o", "w", "'",
    " ", "d", "a", "t", "a">>
MSG_NOT_OBJECT == <<"'", "w", "o", "r", "k", "f", "l", "o", "w", "'", " ", "m", "u", "s", "t",
    " ", "b", "e", " ", "a", " ", "J", "S", "O", "N", " ", "o", "b", "j", "e", "c", "t", " ",
    "o", "r", " ", "J", "S", "O", "N", "-", "e", "n", "c", "o", "d", "e", "d", " ", "s", "t",
    "r", "i", "n", "g">>
MSG_QUEUE == <<"E", "r", "r", "o", "r", " ", "q", "u", "e", "u", "i", "n", "g", " ", "p", "r",
    "o", "m", "p", "t", ":", " ">>
MSG_MAX_RETRIES == <<"M", "a", "x", " ", "r", "e", "t", "r", "i", "e", "s", " ", "r", "e", "a",
    "c", "h", "e", "d", " ", "w", "h", "i", "l", "e", " ", "w", "a", "i", "t", "i", "n", "g",
    " ", "f", "o", "r", " ", "i", "m", "a", "g", "e", " ", "g", "e", "n", "e", "r", "a", "t",
    "i", "o", "n">>
MSG_WAIT == <<"E", "r", "r", "o", "r", " ", "w", "a", "i", "t", "i", "n", "g", " ", "f", "o",
    "r", " ", "i", "m", "a", "g", "e", " ", "g", "e", "n", "e", "r", "a", "t", "i", "o", "n",
    ":", " ">>
MSG_NO_IMAGE == <<"i", "m", "a", "g", "e", " ", "d", "o", "e", "s", " ", "n", "o", "t", " ",
    "e", "x", "i", "s", "t", " ", "i", "n", " ", "t", "h", "e", " ", "s", "p", "e", "c", "i",
    "f", "i", "e", "d", " ", "o", "u", "t", "p", "u", "t", " ", "f", "o", "l", "d", "e", "r",
    ":", " ">>
K_input == <<"i", "n", "p", "u", "t">>
K_id == <<"i", "d">>
K_type == <<"t", "y", "p", "e">>
K_text == <<"t", "e", "x", "t">>
E_URLERROR == <<"<", "u", "r", "l", "o", "p", "e", "n", " ", "e", "r", "r", "o", "r", " ", "[",
    "E", "r", "r", "n", "o", " ", "1", "1", "1", "]", " ", "C", "o", "n", "n", "e", "c", "t",
    "i", "o", "n", " ", "r", "e", "f", "u", "s", "e", "d", ">">>
E_JSONDECODE == <<"E", "x", "p", "e", "c", "t", "i", "n", "g", " ", "v", "a", "l", "u", "e",
    ":", " ", "l", "i", "n", "e", " ", "1", " ", "c", "o", "l", "u", "m", "n", " ", "1", " ",
    "(", "c", "h", "a", "r", " ", "0", ")">>
E_KEY_PROMPT_ID == <<"'", "p", "r", "o", "m", "p", "t", "_", "i", "d", "'">>
E_LIST_INDEX == <<"l", "i", "s", "t", " ", "i", "n", "d", "i", "c", "e", "s", " ", "m", "u",
    "s", "t", " ", "b", "e", " ", "i", "n", "t", "e", "g", "e", "r", "s", " ", "o", "r", " ",
    "s", "l", "i", "c", "e", "s", ",", " ", "n", "o", "t", " ", "s", "t", "r">>
E_NO_GET == <<"'", "s", "t", "r", "'", " ", "o", "b", "j", "e", "c", "t", " ", "h", "a", "s",
    " ", "n", "o", " ", "a", "t", "t", "r", "i", "b", "u", "t", "e", " ", "'", "g", "e", "t",
    "'">>
E_NOT_ITERABLE == <<"a", "r", "g", "u", "m", "e", "n", "t", " ", "o", "f", " ", "t", "y", "p",
    "e", " ", "'", "i", "n", "t", "'", " ", "i", "s", " ", "n", "o", "t", " ", "i", "t", "e",
    "r", "a", "b", "l", "e">>
E_UNHASHABLE == <<"u", "n", "h", "a", "s", "h", "a", "b", "l", "e", " ", "t", "y", "p", "e">>
B64_ALPHABET == <<"A", "B", "C", "D", "E", "F", "G", "H", "I", "J", "K", "L", "M", "N", "O",
    "P", "Q", "R", "S", "T", "U", "V", "W", "X", "Y", "Z", "a", "b", "c", "d", "e", "f", "g",
    "h", "i", "j", "k", "l", "m", "n", "o", "p", "q", "r", "s", "t", "u", "v", "w", "x", "y",
    "z", "0", "1", "2", "3", "4", "5", "6", "7", "8", "9", "+", "/">>
JOB_ID == <<"j", "o", "b", "-", "1">>
PROMPT_ID == <<"a", "b", "c">>
OTHER_ID == <<"z", "z", "z">>
FILE_A == <<"a", ".", "p", "n", "g">>
FILE_B == <<"b", ".", "p", "n", "g">>
NODE_9 == <<"9">>
NODE_10 == <<"1", "0">>
REAL_URL == <<"h", "t", "t", "p", "s", ":", "/", "/", "b", "u", "c", "k", "e", "t", ".", "s",
    "3", ".", "a", "m", "a", "z", "o", "n", "a", "w", "s", ".", "c", "o", "m", "/", "j", "o",
    "b", "-", "1", "/", "a", ".", "p", "n", "g">>
SIMULATED_URL == <<"s", "i", "m", "u", "l", "a", "t", "e", "d", "_", "u", "p", "l", "o", "a",
    "d", "e", "d", "/", "a", ".", "p", "n", "g">>
RESP_QUEUED == <<"{", "\"", "p", "r", "o", "m", "p", "t", "_", "i", "d", "\"", ":", " ", "\"",
    "a", "b", "c", "\"", ",", " ", "\"", "n", "u", "m", "b", "e", "r", "\"", ":", " ", "1",
    "}">>
RESP_NO_ID == <<"{", "\"", "e", "r", "r", "o", "r", "\"", ":", " ", "\"", "i", "n", "v", "a",
    "l", "i", "d", " ", "p", "r", "o", "m", "p", "t", "\"", "}">>
RESP_LIST == <<"[", "]">>
RESP_NOT_JSON == <<"<", "h", "t", "m", "l", ">">>
TEXT_WORKFLOW == <<"{", "\"", "3", "\"", ":", " ", "{", "\"", "c", "l", "a", "s", "s", "_",
    "t", "y", "p", "e", "\"", ":", " ", "\"", "X", "\"", "}", "}">>
TEXT_NOT_JSON == <<"n", "o", "t", " ", "j", "s", "o", "n">>
TEXT_TRUNCATED == <<"{", "\"", "3", "\"", ":">>
TEXT_LIST == <<"[", "1", "]">>
TEXT_NUMBER == <<"7">>
TEXT_NULL == <<"n", "u", "l", "l">>
TEXT_DOUBLE == <<"\"", "{", "\\", "\"", "3", "\\", "\"", ":", " ", "{", "\\", "\"", "c", "l",
    "a", "s", "s", "_", "t", "y", "p", "e", "\\", "\"", ":", " ", "\\", "\"", "X", "\\", "\"",
    "}", "}", "\"">>
K_3 == <<"3">>
K_class_type == <<"c", "l", "a", "s", "s", "_", "t", "y", "p", "e">>
V_X == <<"X">>

----------------------------------------------------------------------------
(* JSON / Python values.                                                   *)

None == [t |-> "null"]
JBool(b) == [t |-> "bool", b |-> b]
JNum(n) == [t |-> "num", n |-> n]
JStr(s) == [t |-> "str", s |-> s]
JList(xs) == [t |-> "list", xs |-> xs]
\* A dict is the sequence of its items in insertion order, keys distinct.
JDict(items) == [t |-> "dict", items |-> items]

\* isinstance(v, str), isinstance(v, dict)
IsStr(v) == v.t = "str"
\* (faulty variant: a list passes for a dict)
IsDict_or_list(v) == v.t \in {"dict", "list"}
IsDict(v) == v.t = "dict"
\* whether v has the method get: of the values modelled, only a dict has
HasGet(v) == v.t = "dict"

Keys(d) == {d.items[n].k : n \in 1..Len(d.items)}
HasKey(d, k) == k \in Keys(d)
\* d[k], for a key the dict has
Item(d, k) == d.items[CHOOSE n \in 1..Len(d.items) : d.items[n].k = k].v
\* d.get(k)
DictGet(d, k) == IF HasKey(d, k) THEN Item(d, k) ELSE None
\* d[k] = v
DictSet(d, k, v) ==
    IF HasKey(d, k)
    THEN JDict([n \in 1..Len(d.items) |->
                  IF d.items[n].k = k THEN [k |-> k, v |-> v] ELSE d.items[n]])
    ELSE JDict(Append(d.items, [k |-> k, v |-> v]))

\* Python truthiness, bool(v)
Truthy(v) ==
    CASE v.t = "null" -> FALSE
      [] v.t = "bool" -> v.b
      [] v.t = "num"  -> v.n # 0
      [] v.t = "str"  -> v.s # <<>>
      [] v.t = "list" -> v.xs # <<>>
      [] v.t = "dict" -> v.items # <<>>

----------------------------------------------------------------------------
(* json.loads, on texts made of the characters below: objects, arrays,     *)
(* strings with the escapes \" \\ \/, unsigned integers, true/false/null.  *)

JsonWs == {" ", "\t", "\n", "\r"}
Digits == <<"0", "1", "2", "3", "4", "5", "6", "7", "8", "9">>
IsDigit(c) == \E d \in 1..10 : Digits[d] = c
DigitVal(c) == (CHOOSE d \in 1..10 : Digits[d] = c) - 1

Fail == [ok |-> FALSE]
Ok(v, n) == [ok |-> TRUE, v |-> v, n |-> n]

RECURSIVE SkipWs(_, _)
SkipWs(s, i) == IF i <= Len(s) /\ s[i] \in JsonWs THEN SkipWs(s, i + 1) ELSE i

HasLit(s, i, lit) ==
    i + Len(lit) - 1 <= Len(s) /\ SubSeq(s, i, i + Len(lit) - 1) = lit

\* the characters of a string literal whose opening quote is at i - 1
RECURSIVE ScanString(_, _, _)
ScanString(s, i, acc) ==
    IF i > Len(s) THEN Fail
    ELSE IF s[i] = "\"" THEN Ok(acc, i + 1)
    ELSE IF s[i] \in {"\t", "\n", "\r"} THEN Fail
    ELSE IF s[i] = "\\"
    THEN IF i + 1 <= Len(s) /\ s[i + 1] \in {"\"", "\\", "/"}
         THEN ScanString(s, i + 2, Append(acc, s[i + 1]))
         ELSE Fail
    ELSE ScanString(s, i + 1, Append(acc, s[i]))

\* the digits of [1-9][0-9]* from i on, as a number
RECURSIVE ScanDigits(_, _, _)
ScanDigits(s, i, acc) ==
    IF i <= Len(s) /\ IsDigit(s[i])
    THEN ScanDigits(s, i + 1, 10 * acc + DigitVal(s[i]))
    ELSE Ok(JNum(acc), i)

RECURSIVE ParseValue(_, _)
RECURSIVE ParseMembers(_, _, _)
RECURSIVE ParseElements(_, _, _)

\* the members of an object, s[i] being where a key's quote must stand
ParseMembers(s, i, d) ==
    IF i > Len(s) \/ s[i] # "\"" THEN Fail
    ELSE LET key == ScanString(s, i + 1, <<>>) IN
      IF ~key.ok THEN Fail
      ELSE LET c == SkipWs(s, key.n) IN
        IF c > Len(s) \/ s[c] # ":" THEN Fail
        ELSE LET val == ParseValue(s, SkipWs(s, c + 1)) IN
          IF ~val.ok THEN Fail
          ELSE LET e == SkipWs(s, val.n)
                   d2 == DictSet(d, key.v, val.v) IN
            IF e > Len(s) THEN Fail
            ELSE IF s[e] = "}" THEN Ok(d2, e + 1)
            ELSE IF s[e] = "," THEN ParseMembers(s, SkipWs(s, e + 1), d2)
            ELSE Fail

\* the elements of an array, s[i] being where a value must start
ParseElements(s, i, xs) ==
    LET val == ParseValue(s, i) IN
    IF ~val.ok THEN Fail
    ELSE LET e == SkipWs(s, val.n)
             xs2 == Append(xs, val.v) IN
      IF e > Len(s) THEN Fail
      ELSE IF s[e] = "]" THEN Ok(JList(xs2), e + 1)
      ELSE IF s[e] = "," THEN ParseElements(s, SkipWs(s, e + 1), xs2)
      ELSE Fail

ParseValue(s, i) ==
    IF i > Len(s) THEN Fail
    ELSE IF s[i] = "\""
    THEN LET r == ScanString(s, i + 1, <<>>) IN
         IF r.ok THEN Ok(JStr(r.v), r.n) ELSE Fail
    ELSE IF s[i] = "{"
    THEN LET m == SkipWs(s, i + 1) IN
         IF m <= Len(s) /\ s[m] = "}" THEN Ok(JDict(<<>>), m + 1)
         ELSE ParseMembers(s, m, JDict(<<>>))
    ELSE IF s[i] = "["
    THEN LET m == SkipWs(s, i + 1) IN
         IF m <= Len(s) /\ s[m] = "]" THEN Ok(JList(<<>>), m + 1)
         ELSE ParseElements(s, m, <<>>)
    ELSE IF HasLit(s, i, <<"n", "u", "l", "l">>) THEN Ok(None, i + 4)
    ELSE IF HasLit(s, i, <<"t", "r", "u", "e">>) THEN Ok(JBool(TRUE), i + 4)
    ELSE IF HasLit(s, i, <<"f", "a", "l", "s", "e">>) THEN Ok(JBool(FALSE), i + 5)
    ELSE IF s[i] = "0" THEN Ok(JNum(0), i + 1)
    ELSE IF IsDigit(s[i]) THEN ScanDigits(s, i, 0)
    ELSE Fail

\* (faulty variant: a text that decodes to a string is decoded once more)
json_loads_twice(s) ==
    LET r == ParseValue(s, SkipWs(s, 1)) IN
    IF ~r.ok THEN Fail
    ELSE IF SkipWs(s, r.n) # Len(s) + 1 THEN Fail
    ELSE IF r.v.t = "str"
    THEN LET r2 == ParseValue(r.v.s, SkipWs(r.v.s, 1)) IN
         IF r2.ok /\ SkipWs(r.v.s, r2.n) = Len(r.v.s) + 1 THEN r2 ELSE r
    ELSE r

\* json.loads(s): [ok |-> TRUE, v |-> value], or ok = FALSE for JSONDecodeError
json_loads(s) ==
    LET r == ParseValue(s, SkipWs(s, 1)) IN
    IF ~r.ok THEN Fail
    ELSE IF SkipWs(s, r.n) # Len(s) + 1 THEN Fail
    ELSE r

----------------------------------------------------------------------------
(* str.lower and str.strip, on ASCII text.                                 *)

Upper == <<"A", "B", "C", "D", "E", "F", "G", "H", "I", "J", "K", "L", "M",
           "N", "O", "P", "Q", "R", "S", "T", "U", "V", "W", "X", "Y", "Z">>
LowerOf == <<"a", "b", "c", "d", "e", "f", "g", "h", "i", "j", "k", "l", "m",
             "n", "o", "p", "q", "r", "s", "t", "u", "v", "w", "x", "y", "z">>
LowerChar(c) ==
    IF \E n \in 1..26 : Upper[n] = c
    THEN LowerOf[CHOOSE n \in 1..26 : Upper[n] = c]
    ELSE c
str_lower(s) == [n \in 1..Len(s) |-> LowerChar(s[n])]

Whitespace == {" ", "\t", "\n", "\r", "\f"}
RECURSIVE str_lstrip(_)
str_lstrip(s) == IF s # <<>> /\ Head(s) \in Whitespace THEN str_lstrip(Tail(s)) ELSE s
RECURSIVE str_rstrip(_)
str_rstrip(s) ==
    IF s # <<>> /\ s[Len(s)] \in Whitespace THEN str_rstrip(SubSeq(s, 1, Len(s) - 1)) ELSE s
str_strip(s) == str_rstrip(str_lstrip(s))

\* needle in haystack, for strings
Contains(haystack, needle) ==
    \E n \in 0..(Len(haystack) - Len(needle)) :
        SubSeq(haystack, n + 1, n + Len(needle)) = needle

----------------------------------------------------------------------------
(* job_prop_to_bool (lines 40-56).                                         *)

true_strings ==
    {<<"t", "r", "u", "e">>, <<"t">>, <<"y", "e", "s">>, <<"y">>, <<"o", "k">>, <<"1">>}

\* (faulty variant: the string is lowercased but not stripped)
job_prop_to_bool_unstripped(input, propname) ==
    LET value == DictGet(input, propname) IN
    IF value = None THEN FALSE
    ELSE IF value.t = "bool" THEN value.b
    ELSE IF value.t = "str" THEN str_lower(value.s) \in true_strings
    ELSE FALSE

job_prop_to_bool(input, propname) ==
    LET value == DictGet(input, propname) IN
    IF value = None THEN FALSE
    ELSE IF value.t = "bool" THEN value.b
    ELSE IF value.t = "str" THEN str_strip(str_lower(value.s)) \in true_strings
    ELSE FALSE

\* (faulty variant: the error is added to a dict that holds a url)
return_error_with_url(error_message) ==
    JDict(<<[k |-> K_url, v |-> JStr(<<>>)], [k |-> K_error, v |-> JStr(error_message)]>>)

\* return_error (lines 59-70): the dict {"error": error_message}
return_error(error_message) == JDict(<<[k |-> K_error, v |-> JStr(error_message)]>>)

----------------------------------------------------------------------------
(* json.dumps with its default separators, and base64.b64encode.           *)

RECURSIVE int_str(_)
int_str(n) == IF n < 10 THEN <<Digits[n + 1]>> ELSE int_str(n \div 10) \o <<Digits[(n % 10) + 1]>>

RECURSIVE EscapeChars(_)
EscapeChars(s) ==
    IF s = <<>> THEN <<>>
    ELSE (CASE Head(s) = "\"" -> <<"\\", "\"">>
            [] Head(s) = "\\" -> <<"\\", "\\">>
            [] Head(s) = "\n" -> <<"\\", "n">>
            [] Head(s) = "\t" -> <<"\\", "t">>
            [] Head(s) = "\r" -> <<"\\", "r">>
            [] OTHER -> <<Head(s)>>) \o EscapeChars(Tail(s))
Quoted(s) == <<"\"">> \o EscapeChars(s) \o <<"\"">>

RECURSIVE json_dumps(_)
RECURSIVE DumpItems(_)
RECURSIVE DumpElements(_)
DumpItems(items) ==
    IF items = <<>> THEN <<>>
    ELSE Quoted(Head(items).k) \o <<":", " ">> \o json_dumps(Head(items).v)
         \o (IF Len(items) > 1 THEN <<",", " ">> ELSE <<>>) \o DumpItems(Tail(items))
DumpElements(xs) ==
    IF xs = <<>> THEN <<>>
    ELSE json_dumps(Head(xs))
         \o (IF Len(xs) > 1 THEN <<",", " ">> ELSE <<>>) \o DumpElements(Tail(xs))
json_dumps(v) ==
    CASE v.t = "null" -> <<"n", "u", "l", "l">>
      [] v.t = "bool" -> IF v.b THEN <<"t", "r", "u", "e">> ELSE <<"f", "a", "l", "s", "e">>
      [] v.t = "num"  -> int_str(v.n)
      [] v.t = "str"  -> Quoted(v.s)
      [] v.t = "list" -> <<"[">> \o DumpElements(v.xs) \o <<"]">>
      [] v.t = "dict" -> <<"{">> \o DumpItems(v.items) \o <<"}">>

\* base64.b64encode(bytes).decode("utf-8"), bytes being numbers in 0..255
B64(n) == B64_ALPHABET[n + 1]
RECURSIVE b64encode(_)
b64encode(bytes) ==
    IF bytes = <<>> THEN <<>>
    ELSE IF Len(bytes) = 1
    THEN <<B64(bytes[1] \div 4), B64((bytes[1] % 4) * 16), "=", "=">>
    ELSE IF Len(bytes) = 2
    THEN <<B64(bytes[1] \div 4), B64((bytes[1] % 4) * 16 + bytes[2] \div 16),
           B64((bytes[2] % 16) * 4), "=">>
    ELSE <<B64(bytes[1] \div 4), B64((bytes[1] % 4) * 16 + bytes[2] \div 16),
           B64((bytes[2] % 16) * 4 + bytes[3] \div 64), B64(bytes[3] % 64)>>
         \o b64encode(SubSeq(bytes, 4, Len(bytes)))

\* str(v), for the values an f-string of the handler is given
py_str(v) ==
    CASE v.t = "str"  -> v.s
      [] v.t = "num"  -> int_str(v.n)
      [] v.t = "null" -> <<"N", "o", "n", "e">>
      [] v.t = "bool" -> IF v.b THEN <<"T", "r", "u", "e">> ELSE <<"F", "a", "l", "s", "e">>
      [] v.t = "dict" /\ v.items = <<>> -> <<"{", "}">>
      [] v.t = "list" /\ v.xs = <<>> -> <<"[", "]">>

----------------------------------------------------------------------------
(* Outcomes of a step: a returned value, a raised exception, or control    *)
(* going on.                                                               *)

Undef == [t |-> "undef"]
Running == [kind |-> "none"]
Returned(v) == [kind |-> "return", v |-> v]
Raised(name, text) == [kind |-> "raise", exc |-> name, str |-> text]
NoFrame == [t |-> "none"]

----------------------------------------------------------------------------
(* The inputs and the behaviours of the collaborators the model draws.     *)

Entry(k, v) == [k |-> k, v |-> v]
Dict1(k, v) == JDict(<<Entry(k, v)>>)

\* {"3": {"class_type": "X"}}
WORKFLOW == Dict1(K_3, Dict1(K_class_type, JStr(V_X)))

ValidWorkflows == {WORKFLOW, JStr(TEXT_WORKFLOW)}
InvalidWorkflows ==
    {Undef, None, JStr(TEXT_NOT_JSON), JStr(TEXT_TRUNCATED), JStr(<<>>), JStr(TEXT_LIST),
     JStr(TEXT_NUMBER), JStr(TEXT_NULL), JStr(TEXT_DOUBLE), JList(<<WORKFLOW>>), JNum(7),
     JBool(TRUE)}
\* raw values of a flag in the job input; Undef is the absent key
HandlerFlags == {Undef, JBool(TRUE), JNum(1), JStr(<<" ", "Y", "e", "s">>)}

\* a dict of the given items, the Undef ones left out
RECURSIVE Present(_)
Present(items) ==
    IF items = <<>> THEN <<>>
    ELSE (IF Head(items).v = Undef THEN <<>> ELSE <<Head(items)>>) \o Present(Tail(items))
DictOf(items) == JDict(Present(items))

JobInputs ==
    {DictOf(<<Entry(K_workflow, w), Entry(K_return_nsfw, n), Entry(K_return_b64, b)>>) :
        w \in ValidWorkflows, n \in HandlerFlags, b \in HandlerFlags}
    \cup {DictOf(<<Entry(K_workflow, w), Entry(K_return_nsfw, n)>>) :
        w \in InvalidWorkflows, n \in {Undef, JBool(TRUE)}}
\* the job dicts: without "input", with a null or non-dict "input", with a dict,
\* and one without "id"
Jobs ==
    {DictOf(<<Entry(K_id, JStr(JOB_ID)), Entry(K_input, i)>>) :
        i \in {Undef, None, JStr(TEXT_WORKFLOW)} \cup JobInputs}
    \cup {Dict1(K_input, Dict1(K_workflow, WORKFLOW))}

\* requests.get: a response's status code, or a RequestException
ProbeOutcomes == {"200", "503", "RequestException"}

\* urlopen(POST /prompt): a response body, or URLError
PromptOutcomes ==
    {[ok |-> TRUE, body |-> b] : b \in {RESP_QUEUED, RESP_NO_ID, RESP_LIST, RESP_NOT_JSON}}
    \cup {[ok |-> FALSE]}

Image(f) == JDict(<<Entry(K_filename, JStr(f)), Entry(K_type, JStr(<<"o">>))>>)
Images(fs) == Dict1(K_images, JList([n \in 1..Len(fs) |-> Image(fs[n])]))
NoImages == Dict1(K_text, JList(<<JStr(V_X)>>))
Nodes2(a, b) == JDict(<<Entry(NODE_9, a), Entry(NODE_10, b)>>)

\* the "outputs" sections of a completed history entry
WellFormedOutputs ==
    {Dict1(NODE_9, Images(<<FILE_A>>)),
     Dict1(NODE_9, Images(<<FILE_A, FILE_B>>)),
     Nodes2(Images(<<FILE_A>>), Images(<<FILE_B>>)),
     Nodes2(Images(<<FILE_B>>), Images(<<FILE_A>>)),
     Nodes2(Images(<<FILE_A>>), Images(<<>>)),
     Nodes2(Images(<<FILE_B>>), NoImages),
     Dict1(NODE_10, NoImages),
     Dict1(NODE_9, Images(<<>>))}
MalformedOutputs ==
    {Dict1(NODE_9, Dict1(K_images, JList(<<Dict1(K_type, JStr(<<"o">>))>>))),
     Dict1(NODE_9, JNum(5)),
     JList(<<JNum(1)>>)}
Outputs == WellFormedOutputs \cup MalformedOutputs

HistoryOf(id, entry) == Dict1(id, entry)
\* json.loads of the body of GET /history/<id>
HistoryValues ==
    {JDict(<<>>),
     HistoryOf(OTHER_ID, Dict1(K_outputs, Dict1(NODE_9, Images(<<FILE_A>>)))),
     HistoryOf(PROMPT_ID, JDict(<<>>)),
     HistoryOf(PROMPT_ID, Dict1(K_outputs, JDict(<<>>))),
     HistoryOf(PROMPT_ID, JStr(V_X)),
     JList(<<>>)}
    \cup {HistoryOf(PROMPT_ID, Dict1(K_outputs, o)) : o \in Outputs}
\* get_history: a decoded body, or URLError / JSONDecodeError
HistoryOutcomes ==
    {[ok |-> TRUE, v |-> h] : h \in HistoryValues}
    \cup {[ok |-> FALSE, str |-> E_URLERROR], [ok |-> FALSE, str |-> E_JSONDECODE]}

\* rp_upload.upload_image: a URL, or an exception
UploadOutcomes ==
    {[ok |-> TRUE, url |-> REAL_URL], [ok |-> TRUE, url |-> SIMULATED_URL], [ok |-> FALSE]}
\* NudeDetector().detect: a list of findings, or an exception
DetectOutcomes ==
    {[ok |-> TRUE, v |-> JList(<<>>)],
     [ok |-> TRUE, v |-> JList(<<Dict1(<<"c", "l", "a", "s", "s">>, JStr(<<"s", "a", "f", "e">>))>>)],
     [ok |-> FALSE]}
\* open(img_file, "rb").read(): the bytes of the file, or OSError
ReadOutcomes ==
    {[ok |-> TRUE, bytes |-> <<77>>], [ok |-> TRUE, bytes |-> <<77, 97, 110, 33>>],
     [ok |-> FALSE]}

----------------------------------------------------------------------------
(* The pure parts of handler.                                              *)

Go(ji, w) == [kind |-> "go", job_input |-> ji, workflow |-> w]

\* lines 164-185: the error returned, the exception raised, or the workflow
Validate(j) ==
    IF ~HasKey(j, K_input) THEN Raised("KeyError", <<>>)
    ELSE LET ji == Item(j, K_input) IN
      IF ji = None THEN Returned(return_error(MSG_NO_INPUT))
      ELSE IF ~HasGet(ji) THEN Raised("AttributeError", <<>>)
      ELSE IF DictGet(ji, K_workflow) = None THEN Returned(return_error(MSG_NO_WORKFLOW))
      ELSE LET raw == DictGet(ji, K_workflow)
               decoded == json_loads(raw.s) IN
        IF IsStr(raw) /\ ~decoded.ok THEN Returned(return_error(MSG_BAD_JSON))
        ELSE LET w == IF IsStr(raw) THEN decoded.v ELSE raw IN
          IF ~IsDict(w) THEN Returned(return_error(MSG_NOT_OBJECT))
          ELSE Go(ji, w)

\* (faulty variant: a response without "prompt_id" yields None, as queued.get would)
Queued_get(outcome) ==
    IF ~outcome.ok THEN Raised("URLError", E_URLERROR)
    ELSE LET queued == json_loads(outcome.body) IN
      IF ~queued.ok THEN Raised("JSONDecodeError", E_JSONDECODE)
      ELSE IF queued.v.t = "dict" THEN Returned(DictGet(queued.v, K_prompt_id))
      ELSE Raised("TypeError", E_LIST_INDEX)

\* lines 113-115 and 197: the prompt id of a response to the POST, or the exception
Queued(outcome) ==
    IF ~outcome.ok THEN Raised("URLError", E_URLERROR)
    ELSE LET queued == json_loads(outcome.body) IN
      IF ~queued.ok THEN Raised("JSONDecodeError", E_JSONDECODE)
      ELSE IF queued.v.t = "dict"
      THEN IF HasKey(queued.v, K_prompt_id)
           THEN Returned(Item(queued.v, K_prompt_id))
           ELSE Raised("KeyError", E_KEY_PROMPT_ID)
      ELSE Raised("TypeError", E_LIST_INDEX)

Break == [kind |-> "break"]
Wait == [kind |-> "wait"]
\* (faulty variant: the identifier alone ends the poll, whatever its entry holds)
PollCheck_id_only(id, h) ==
    IF h.t = "dict"
    THEN IF id.t \in {"list", "dict"} THEN Raised("TypeError", E_UNHASHABLE)
         ELSE IF ~(id.t = "str" /\ HasKey(h, id.s)) THEN Wait
         ELSE IF ~HasGet(Item(h, id.s)) THEN Raised("AttributeError", E_NO_GET)
         ELSE Break
    ELSE IF h.t = "list"
    THEN IF \E n \in 1..Len(h.xs) : h.xs[n] = id
         THEN Raised("TypeError", E_LIST_INDEX) ELSE Wait
    ELSE Raised("TypeError", E_NOT_ITERABLE)

\* (faulty variant: the key "outputs" ends the poll even when its section is empty)
PollCheck_outputs_key(id, h) ==
    IF h.t = "dict"
    THEN IF id.t \in {"list", "dict"} THEN Raised("TypeError", E_UNHASHABLE)
         ELSE IF ~(id.t = "str" /\ HasKey(h, id.s)) THEN Wait
         ELSE LET entry == Item(h, id.s) IN
           IF ~HasGet(entry) THEN Raised("AttributeError", E_NO_GET)
           ELSE IF HasKey(entry, K_outputs) THEN Break ELSE Wait
    ELSE IF h.t = "list"
    THEN IF \E n \in 1..Len(h.xs) : h.xs[n] = id
         THEN Raised("TypeError", E_LIST_INDEX) ELSE Wait
    ELSE Raised("TypeError", E_NOT_ITERABLE)

\* line 210: break, wait, or the exception of evaluating the condition
PollCheck(id, h) ==
    IF h.t = "dict"
    THEN IF id.t \in {"list", "dict"} THEN Raised("TypeError", E_UNHASHABLE)
         ELSE IF ~(id.t = "str" /\ HasKey(h, id.s)) THEN Wait
         ELSE LET entry == Item(h, id.s) IN
           IF ~HasGet(entry) THEN Raised("AttributeError", E_NO_GET)
           ELSE IF Truthy(DictGet(entry, K_outputs)) THEN Break ELSE Wait
    ELSE IF h.t = "list"
    THEN IF \E n \in 1..Len(h.xs) : h.xs[n] = id
         THEN Raised("TypeError", E_LIST_INDEX) ELSE Wait
    ELSE Raised("TypeError", E_NOT_ITERABLE)

\* (faulty variant: the first image of a node is kept, not the last)
ScanImages_first(images, acc) ==
    IF images = <<>> THEN Returned(acc)
    ELSE IF Head(images).t = "dict" /\ HasKey(Head(images), K_filename)
    THEN Returned(Item(Head(images), K_filename))
    ELSE Raised("KeyError", <<>>)

\* line 229 for the images of one node, in order: the last filename, or the exception
RECURSIVE ScanImages(_, _)
ScanImages(images, acc) ==
    IF images = <<>> THEN Returned(acc)
    ELSE LET image == Head(images) IN
      IF image.t = "dict"
      THEN IF HasKey(image, K_filename)
           THEN ScanImages(Tail(images), Item(image, K_filename))
           ELSE Raised("KeyError", <<>>)
      ELSE Raised("TypeError", <<>>)

\* iter(v), for the value under "images"
Iterate(v) ==
    CASE v.t = "list" -> [ok |-> TRUE, xs |-> v.xs]
      [] v.t = "dict" -> [ok |-> TRUE, xs |-> [n \in 1..Len(v.items) |-> JStr(v.items[n].k)]]
      [] v.t = "str"  -> [ok |-> TRUE, xs |-> [n \in 1..Len(v.s) |-> JStr(<<v.s[n]>>)]]
      [] OTHER -> [ok |-> FALSE]

\* lines 226-229 for the nodes in order
RECURSIVE ScanNodes(_, _)
ScanNodes(items, acc) ==
    IF items = <<>> THEN Returned(acc)
    ELSE LET node_output == Head(items).v IN
      IF node_output.t = "dict"
      THEN IF HasKey(node_output, K_images)
           THEN LET it == Iterate(Item(node_output, K_images)) IN
             IF ~it.ok THEN Raised("TypeError", <<>>)
             ELSE LET r == ScanImages(it.xs, acc) IN
               IF r.kind = "raise" THEN r ELSE ScanNodes(Tail(items), r.v)
           ELSE ScanNodes(Tail(items), acc)
      ELSE IF node_output.t = "list"
      THEN IF \E n \in 1..Len(node_output.xs) : node_output.xs[n] = JStr(K_images)
           THEN Raised("TypeError", <<>>) ELSE ScanNodes(Tail(items), acc)
      ELSE IF node_output.t = "str"
      THEN IF Contains(node_output.s, K_images)
           THEN Raised("TypeError", <<>>) ELSE ScanNodes(Tail(items), acc)
      ELSE Raised("TypeError", <<>>)

\* lines 222-229: output_images, or the exception raised outside any try
ResolveImages(h, id) ==
    LET outputs == DictGet(Item(h, id.s), K_outputs) IN
    IF outputs.t # "dict" THEN Raised("AttributeError", <<>>)
    ELSE ScanNodes(outputs.items, JDict(<<>>))

\* (faulty variant: the separator is left out)
ImagePath_unseparated(name) == COMFY_OUTPUT_PATH \o py_str(name)

\* line 234
ImagePath(name) == COMFY_OUTPUT_PATH \o <<"/">> \o py_str(name)

----------------------------------------------------------------------------
(* Initial states.                                                         *)

\* get, post, hist count the requests; posted holds the bodies of the POSTs, queued
\* what each POST came to (lines 196-197), failed the exceptions of get_history
NoCalls == [get |-> 0, post |-> 0, hist |-> 0, posted |-> <<>>, queued |-> <<>>,
            failed |-> <<>>]
NoPost == [exists |-> <<>>, upload |-> <<>>, detect |-> <<>>, encode |-> <<>>]

Fresh ==
    /\ job_input = Undef /\ workflow = Undef /\ comfy_job_id = Undef
    /\ retries = Undef /\ history = Undef /\ output_images = Undef
    /\ local_image_path = Undef /\ image_url = Undef /\ job_output = Undef
    /\ result = Running
    /\ net = NoCalls /\ slept = [probe |-> 0, poll |-> 0] /\ post = NoPost

\* handler(job) is called
Init ==
    /\ pc = "handler"
    /\ job \in Jobs
    /\ cs = NoFrame
    /\ arg = Undef
    /\ Fresh

----------------------------------------------------------------------------
(* handler (lines 151-255), cut at its external calls.                     *)

Finish(r) == pc' = "done" /\ result' = r

\* lines 164-192: validation, and the call of check_server
HandlerValidate ==
    /\ pc = "handler"
    /\ LET v == Validate(job) IN
       IF v.kind = "go"
       THEN /\ job_input' = v.job_input
            /\ workflow' = v.workflow
            /\ job_output' = JDict(<<>>)
            /\ cs' = [url |-> HTTP_PREFIX \o COMFY_HOST,
                      retries |-> COMFY_API_AVAILABLE_MAX_RETRIES,
                      delay |-> COMFY_API_AVAILABLE_INTERVAL_MS,
                      i |-> 0, log |-> <<>>, caller |-> "handler"]
            /\ pc' = "cs_get"
            /\ UNCHANGED result
       ELSE /\ Finish(v)
            /\ UNCHANGED <<job_input, workflow, job_output, cs>>
    /\ UNCHANGED <<job, comfy_job_id, retries, history, output_images, local_image_path,
                   image_url, net, slept, post, arg>>

\* check_server's frame once it has returned v to handler
Popped(v) == [t |-> "returned", caller |-> "handler", v |-> v]

\* (faulty variant: handler gives up when check_server returns False)
CheckServerReturn_or_abort(v, log) ==
    IF cs.caller = "handler"
    THEN /\ cs' = Popped(v)
         /\ IF v THEN pc' = "queue" /\ UNCHANGED result
            ELSE Finish(Returned(return_error(MSG_QUEUE)))
    ELSE /\ Finish(Returned(JBool(v)))
         /\ cs' = [cs EXCEPT !.log = log]

\* check_server returns v: to handler, which drops the value (line 188), or to the caller
CheckServerReturn(v, log) ==
    IF cs.caller = "handler"
    THEN /\ pc' = "queue"
         /\ cs' = Popped(v)
         /\ UNCHANGED result
    ELSE /\ Finish(Returned(JBool(v)))
         /\ cs' = [cs EXCEPT !.log = log]

\* (faulty variant: any response counts, whatever its status)
Reachable_any_status(outcome) == outcome # "RequestException"

\* line 89
Reachable(outcome) == outcome = "200"

\* lines 85-94: one attempt of check_server
CheckServerGet ==
    /\ pc = "cs_get"
    /\ cs.i < cs.retries
    /\ \E outcome \in ProbeOutcomes :
        /\ net' = [net EXCEPT !.get = @ + 1]
        /\ IF Reachable(outcome)
           THEN CheckServerReturn(TRUE, Append(cs.log, outcome))
           ELSE /\ pc' = "cs_sleep"
                /\ cs' = [cs EXCEPT !.log = Append(@, outcome)]
                /\ UNCHANGED result
    /\ UNCHANGED <<job, job_input, workflow, comfy_job_id, retries, history, output_images,
                   local_image_path, image_url, job_output, slept, post, arg>>

\* line 97, and the next value of i
CheckServerSleep ==
    /\ pc = "cs_sleep"
    /\ slept' = [slept EXCEPT !.probe = @ + 1]
    /\ cs' = [cs EXCEPT !.i = @ + 1]
    /\ pc' = "cs_get"
    /\ UNCHANGED <<job, job_input, workflow, comfy_job_id, retries, history, output_images,
                   local_image_path, image_url, job_output, result, net, post, arg>>

\* lines 99-100: range(retries) is used up
CheckServerFail ==
    /\ pc = "cs_get"
    /\ cs.i >= cs.retries
    /\ CheckServerReturn(FALSE, cs.log)
    /\ UNCHANGED <<job, job_input, workflow, comfy_job_id, retries, history, output_images,
                   local_image_path, image_url, job_output, net, slept, post, arg>>

\* lines 195-204: queue_workflow, the prompt id, retries = 0
HandlerQueue ==
    /\ pc = "queue"
    /\ \E outcome \in PromptOutcomes :
        LET q == Queued(outcome) IN
        /\ net' = [net EXCEPT !.post = @ + 1,
                              !.posted = Append(@, json_dumps(Dict1(K_prompt, workflow))),
                              !.queued = Append(@, q)]
        /\ IF q.kind = "return"
           THEN /\ comfy_job_id' = q.v
                /\ retries' = 0
                /\ pc' = "poll"
                /\ UNCHANGED result
           ELSE /\ Finish(Returned(return_error(MSG_QUEUE \o q.str)))
                /\ UNCHANGED <<comfy_job_id, retries>>
    /\ UNCHANGED <<job, job_input, workflow, cs, history, output_images, local_image_path,
                   image_url, job_output, slept, post, arg>>

\* (faulty variant: one attempt too many)
PollAgain_inclusive(n) == n <= COMFY_POLLING_MAX_RETRIES

\* line 206: the while's condition
PollAgain(n) == n < COMFY_POLLING_MAX_RETRIES

\* (faulty variant: the exception is swallowed and the poll goes on)
PollExcept_and_retry(text) == pc' = "poll_sleep" /\ UNCHANGED result

\* lines 218-219: the except clause around the poll loop
PollExcept(text) == Finish(Returned(return_error(MSG_WAIT \o text)))

\* lines 206-211, 218-219: one get_history and the test of its result
HandlerPoll ==
    /\ pc = "poll"
    /\ PollAgain(retries)
    /\ \E outcome \in HistoryOutcomes :
        /\ net' = [net EXCEPT !.hist = @ + 1,
                              !.failed = IF outcome.ok THEN @ ELSE Append(@, outcome.str)]
        /\ IF ~outcome.ok
           THEN /\ PollExcept(outcome.str)
                /\ UNCHANGED history
           ELSE LET c == PollCheck(comfy_job_id, outcome.v) IN
                /\ history' = outcome.v
                /\ IF c = Break THEN pc' = "resolve" /\ UNCHANGED result
                   ELSE IF c = Wait THEN pc' = "poll_sleep" /\ UNCHANGED result
                   ELSE PollExcept(c.str)
    /\ UNCHANGED <<job, job_input, workflow, cs, comfy_job_id, retries, output_images,
                   local_image_path, image_url, job_output, slept, post, arg>>

\* (faulty variant: the counter is not advanced)
NextRetries_stuck(n) == n

\* line 215
NextRetries(n) == n + 1

\* lines 214-215
HandlerPollSleep ==
    /\ pc = "poll_sleep"
    /\ slept' = [slept EXCEPT !.poll = @ + 1]
    /\ retries' = NextRetries(retries)
    /\ pc' = "poll"
    /\ UNCHANGED <<job, job_input, workflow, cs, comfy_job_id, history, output_images,
                   local_image_path, image_url, job_output, result, net, post, arg>>

\* lines 216-217: the while's else
HandlerPollExhausted ==
    /\ pc = "poll"
    /\ ~PollAgain(retries)
    /\ Finish(Returned(return_error(MSG_MAX_RETRIES)))
    /\ UNCHANGED <<job, job_input, workflow, cs, comfy_job_id, retries, history,
                   output_images, local_image_path, image_url, job_output, net, slept, post,
                   arg>>

\* lines 222-234: the filename kept and its path
HandlerResolve ==
    /\ pc = "resolve"
    /\ LET r == ResolveImages(history, comfy_job_id) IN
       IF r.kind = "raise"
       THEN Finish(r) /\ UNCHANGED <<output_images, local_image_path>>
       ELSE /\ output_images' = r.v
            /\ local_image_path' = ImagePath(r.v)
            /\ pc' = "exists"
            /\ UNCHANGED result
    /\ UNCHANGED <<job, job_input, workflow, cs, comfy_job_id, retries, history, image_url,
                   job_output, net, slept, post, arg>>

\* (faulty variant: a missing file is handed to the upload before the error is returned)
HandlerExists_after_upload ==
    /\ pc = "exists"
    /\ \E exists \in BOOLEAN :
        /\ IF exists
           THEN /\ post' = [post EXCEPT !.exists =
                              Append(@, [path |-> local_image_path, found |-> exists])]
                /\ pc' = "upload" /\ UNCHANGED result
           ELSE /\ post' = [post EXCEPT !.exists =
                              Append(@, [path |-> local_image_path, found |-> exists]),
                                        !.upload =
                              Append(@, [id |-> DictGet(job, K_id), path |-> local_image_path,
                                         outcome |-> [ok |-> FALSE]])]
                /\ Finish(Returned(return_error(MSG_NO_IMAGE \o local_image_path)))
    /\ UNCHANGED <<job, job_input, workflow, cs, comfy_job_id, retries, history,
                   output_images, local_image_path, image_url, job_output, net, slept, arg>>

\* lines 236, 255: os.path.exists(local_image_path)
HandlerExists ==
    /\ pc = "exists"
    /\ \E exists \in BOOLEAN :
        /\ post' = [post EXCEPT !.exists = Append(@, [path |-> local_image_path, found |-> exists])]
        /\ IF exists
           THEN pc' = "upload" /\ UNCHANGED result
           ELSE Finish(Returned(return_error(MSG_NO_IMAGE \o local_image_path)))
    /\ UNCHANGED <<job, job_input, workflow, cs, comfy_job_id, retries, history,
                   output_images, local_image_path, image_url, job_output, net, slept, arg>>

\* lines 241-245
HandlerUpload ==
    /\ pc = "upload"
    /\ IF ~HasKey(job, K_id)
       THEN Finish(Raised("KeyError", <<>>)) /\ UNCHANGED <<post, image_url, job_output>>
       ELSE \E outcome \in UploadOutcomes :
        /\ post' = [post EXCEPT !.upload =
                      Append(@, [id |-> Item(job, K_id), path |-> local_image_path,
                                 outcome |-> outcome])]
        /\ IF outcome.ok
           THEN /\ image_url' = outcome.url
                /\ job_output' = DictSet(job_output, K_url, JStr(outcome.url))
                /\ pc' = "nsfw"
                /\ UNCHANGED result
           ELSE /\ Finish(Raised("UploadError", <<>>))
                /\ UNCHANGED <<image_url, job_output>>
    /\ UNCHANGED <<job, job_input, workflow, cs, comfy_job_id, retries, history,
                   output_images, local_image_path, net, slept, arg>>

\* (faulty variant: the url is compared with the sentinel instead of searched for it)
aws_uploaded_exact(url) == url # SIMULATED

\* line 243
aws_uploaded(url) == ~Contains(url, SIMULATED)

\* lines 247-248
HandlerNsfw ==
    /\ pc = "nsfw"
    /\ IF job_prop_to_bool(job_input, K_return_nsfw)
       THEN \E outcome \in DetectOutcomes :
              /\ post' = [post EXCEPT !.detect =
                            Append(@, [path |-> local_image_path, outcome |-> outcome])]
              /\ IF outcome.ok
                 THEN /\ job_output' = DictSet(job_output, K_nsfw, outcome.v)
                      /\ pc' = "b64"
                      /\ UNCHANGED result
                 ELSE Finish(Raised("DetectError", <<>>)) /\ UNCHANGED job_output
       ELSE pc' = "b64" /\ UNCHANGED <<post, job_output, result>>
    /\ UNCHANGED <<job, job_input, workflow, cs, comfy_job_id, retries, history,
                   output_images, local_image_path, image_url, net, slept, arg>>

\* lines 250-253
HandlerB64 ==
    /\ pc = "b64"
    /\ IF ~aws_uploaded(image_url) /\ job_prop_to_bool(job_input, K_return_b64)
       THEN \E outcome \in ReadOutcomes :
              /\ post' = [post EXCEPT !.encode =
                            Append(@, [path |-> local_image_path, outcome |-> outcome])]
              /\ IF outcome.ok
                 THEN LET out == DictSet(job_output, K_base64, JStr(b64encode(outcome.bytes))) IN
                      job_output' = out /\ Finish(Returned(out))
                 ELSE Finish(Raised("OSError", <<>>)) /\ UNCHANGED job_output
       ELSE Finish(Returned(job_output)) /\ UNCHANGED <<post, job_output>>
    /\ UNCHANGED <<job, job_input, workflow, cs, comfy_job_id, retries, history,
                   output_images, local_image_path, image_url, net, slept, arg>>

Next ==
    \/ HandlerValidate
    \/ CheckServerGet
    \/ CheckServerSleep
    \/ CheckServerFail
    \/ HandlerQueue
    \/ HandlerPoll
    \/ HandlerPollSleep
    \/ HandlerPollExhausted
    \/ HandlerResolve
    \/ HandlerExists
    \/ HandlerUpload
    \/ HandlerNsfw
    \/ HandlerB64

Spec == Init /\ [][Next]_vars

\* the places where handler and check_server are cut into steps
ProgramPoints ==
    {"handler", "cs_get", "cs_sleep", "queue", "poll", "poll_sleep", "resolve", "exists",
     "upload", "nsfw", "b64", "done"}
\* handler has not ended and moves on from where it stands; every step of Next
\* moves on, and only a step of Next does
Advance == pc # "done" /\ pc' \in ProgramPoints \ {pc}
\* A call that was made returns or raises and a sleep ends: handler does not
\* stand still before it has ended.
FairSpec == Spec /\ WF_pc(Advance)

----------------------------------------------------------------------------
(* check_server(url, retries, delay) called on its own.                    *)

InitProbe ==
    /\ pc = "cs_get"
    /\ \E r \in 0..MaxRetriesArg, d \in {COMFY_API_AVAILABLE_INTERVAL_MS, 500} :
         cs = [url |-> HTTP_PREFIX \o COMFY_HOST, retries |-> r, delay |-> d,
               i |-> 0, log |-> <<>>, caller |-> "direct"]
    /\ job = Undef
    /\ arg = Undef
    /\ Fresh

NextProbe ==
    \/ CheckServerGet
    \/ CheckServerSleep
    \/ CheckServerFail

SpecProbe == InitProbe /\ [][NextProbe]_vars

----------------------------------------------------------------------------
(* job_prop_to_bool(job_input, "return-nsfw") called on its own.           *)

FlagAlphabet == {"t", "T", "y", "Y", "1", "0", " ", "\t", "o", "k", "K", "e", "s", "n"}
RECURSIVE StringsUpTo(_)
StringsUpTo(n) ==
    IF n = 0 THEN {<<>>}
    ELSE LET shorter == StringsUpTo(n - 1) IN
         shorter \cup {Append(s, c) : s \in shorter, c \in FlagAlphabet}
LongerFlagStrings ==
    {<<"t", "r", "u", "e">>, <<"T", "r", "u", "e">>, <<"T", "R", "U", "E">>,
     <<" ", "t", "r", "u", "e", "\n">>, <<"f", "a", "l", "s", "e">>,
     <<"\t", " ", "Y", "e", "S", " ", "\r", "\n">>, <<"y", "e", "s", "!">>,
     <<"t", "r", "u", "e", " ", "1">>, <<"t", " ", "r", "u", "e">>, <<"\f", "O", "k", "\f">>}
FlagValues ==
    {Undef, None, JBool(TRUE), JBool(FALSE), JNum(0), JNum(1), JList(<<>>),
     JList(<<JBool(TRUE)>>), JDict(<<>>), Dict1(K_return_nsfw, JBool(TRUE))}
    \cup {JStr(s) : s \in StringsUpTo(MaxFlagLen) \cup LongerFlagStrings}

InitFlag ==
    /\ pc = "job_prop_to_bool"
    /\ \E v \in FlagValues, other \in {Undef, JBool(TRUE)} :
         arg = DictOf(<<Entry(K_return_b64, other), Entry(K_return_nsfw, v)>>)
    /\ job = Undef
    /\ cs = NoFrame
    /\ Fresh

CallFlag ==
    /\ pc = "job_prop_to_bool"
    /\ Finish(Returned(JBool(job_prop_to_bool(arg, K_return_nsfw))))
    /\ UNCHANGED <<job, job_input, workflow, cs, comfy_job_id, retries, history,
                   output_images, local_image_path, image_url, job_output, net, slept, post,
                   arg>>

NextFlag == CallFlag

SpecFlag == InitFlag /\ [][NextFlag]_vars

----------------------------------------------------------------------------
(* The claims.                                                             *)

Done == pc = "done"
Envelope == result.v
IsErrorEnvelope(v) == v.t = "dict" /\ Keys(v) = {K_error}
IsSuccessEnvelope(v) == v.t = "dict" /\ K_url \in Keys(v) /\ K_error \notin Keys(v)
ReturnedError == Done /\ result.kind = "return" /\ IsErrorEnvelope(Envelope)
ReturnedSuccess == Done /\ result.kind = "return" /\ IsSuccessEnvelope(Envelope)
ErrorOf(message) == Returned(JDict(<<Entry(K_error, JStr(message))>>))
NoNetworkCall == net.get = 0 /\ net.post = 0 /\ net.hist = 0
NoPostProcessing == post.upload = <<>> /\ post.detect = <<>> /\ post.encode = <<>>

\* C1: every execution of handler ends by returning an error envelope or a
\* success envelope; none ends with an exception escaping to the caller.
C1_AlwaysEnvelope ==
    Done => /\ result.kind = "return"
            /\ IsErrorEnvelope(Envelope) \/ IsSuccessEnvelope(Envelope)

\* the workflow of the job is absent, null, a string that is not valid JSON, or
\* a value, given or decoded from a string once, that is not a map
HasMapInput == HasKey(job, K_input) /\ Item(job, K_input).t = "dict"
RawWorkflow == Item(Item(job, K_input), K_workflow)
MalformedWorkflow ==
    /\ HasMapInput
    /\ \/ ~HasKey(Item(job, K_input), K_workflow)
       \/ RawWorkflow \in InvalidWorkflows

\* C2: a job whose workflow is absent, null, not valid JSON or not a map gets an
\* error envelope, and no availability GET, prompt POST or history GET is made
\* for it; the text "not json" gets the message of scenario D.
C2_MalformedWorkflowNoNetwork ==
    MalformedWorkflow =>
        /\ NoNetworkCall
        /\ pc \in {"handler", "done"}
        /\ Done => ReturnedError
        /\ (Done /\ HasKey(Item(job, K_input), K_workflow)
                 /\ RawWorkflow = JStr(TEXT_NOT_JSON)) => result = ErrorOf(MSG_BAD_JSON)
C2_Witness ==
    /\ Done /\ MalformedWorkflow /\ HasKey(Item(job, K_input), K_workflow)
    /\ RawWorkflow = JStr(TEXT_DOUBLE)
    /\ result = ErrorOf(MSG_NOT_OBJECT)

\* the job has no input section: no "input" key, or a null under it
NoInputSection == ~HasKey(job, K_input) \/ Item(job, K_input) = None

\* C3: a job with no input section (key absent, or null) is rejected while
\* validating: an error envelope is returned, nothing is probed or submitted.
C3_NoInputRejected ==
    NoInputSection => /\ NoNetworkCall
                      /\ pc \in {"handler", "done"}
                      /\ Done => ReturnedError

\* C4: when the poll budget is used up without a completing response, the
\* handler returns the "Max retries reached" envelope after exactly
\* COMFY_POLLING_MAX_RETRIES history GETs, and nothing was uploaded,
\* classified or encoded.
C4_PollBudgetExact ==
    /\ [](/\ (pc = "poll" => net.hist = retries)
          /\ (pc = "poll_sleep" => net.hist = retries + 1)
          /\ net.hist <= COMFY_POLLING_MAX_RETRIES
          /\ (Done /\ result = ErrorOf(MSG_MAX_RETRIES)) =>
                 /\ net.hist = COMFY_POLLING_MAX_RETRIES
                 /\ NoPostProcessing /\ post.exists = <<>>)
    /\ [][(pc = "poll" /\ net.hist = COMFY_POLLING_MAX_RETRIES) =>
              (result' = ErrorOf(MSG_MAX_RETRIES) /\ pc' = "done" /\ net' = net)]_vars
C4_Witness ==
    /\ Done /\ result = ErrorOf(MSG_MAX_RETRIES)
    /\ net.hist = COMFY_POLLING_MAX_RETRIES

\* C5: a value handler returns either has the key "error" and no other key, or
\* has the key "url" and not the key "error".
C5_OneEnvelope ==
    (Done /\ result.kind = "return") =>
        /\ IsErrorEnvelope(Envelope) \/ IsSuccessEnvelope(Envelope)
        /\ ~(K_error \in Keys(Envelope) /\ K_url \in Keys(Envelope))
        /\ K_error \in Keys(Envelope) \/ K_url \in Keys(Envelope)
C5_Witness ==
    /\ ReturnedSuccess /\ K_nsfw \in Keys(Envelope) /\ K_base64 \in Keys(Envelope)

\* a flag, as the data model states it: the raw value is the boolean true, or a
\* string that is one of the words below once lowercased and trimmed
TrueWords ==
    {<<"t", "r", "u", "e">>, <<"t">>, <<"y", "e", "s">>, <<"y">>, <<"o", "k">>, <<"1">>}
SameLetter(c, w) == c = w \/ \E n \in 1..26 : LowerOf[n] = w /\ Upper[n] = c
\* s is w in some letter case, between two runs of whitespace
TrimmedCaseOf(s, w) ==
    \E a \in 0..Len(s) :
        /\ a + Len(w) <= Len(s)
        /\ \A j \in 1..a : s[j] \in Whitespace
        /\ \A j \in (a + Len(w) + 1)..Len(s) : s[j] \in Whitespace
        /\ \A j \in 1..Len(w) : SameLetter(s[a + j], w[j])
FlagIsTrue(input, name) ==
    /\ HasKey(input, name)
    /\ LET raw == Item(input, name) IN
       \/ raw = JBool(TRUE)
       \/ raw.t = "str" /\ \E w \in TrueWords : TrimmedCaseOf(raw.s, w)

Uploaded == post.upload[1].outcome

\* C6: a success envelope holds "url", the URL the upload returned; "nsfw" iff
\* the return-nsfw flag is true, and then the classifier's findings; "base64"
\* iff the URL contains "simulated_uploaded/" and the return-b64 flag is true;
\* and no other key.
C6_SuccessKeys ==
    ReturnedSuccess =>
        /\ Len(post.upload) = 1 /\ Uploaded.ok
        /\ Item(Envelope, K_url) = JStr(Uploaded.url)
        /\ Keys(Envelope) \subseteq {K_url, K_nsfw, K_base64}
        /\ K_nsfw \in Keys(Envelope) <=> FlagIsTrue(Item(job, K_input), K_return_nsfw)
        /\ K_nsfw \in Keys(Envelope) =>
              /\ Len(post.detect) = 1
              /\ Item(Envelope, K_nsfw) = post.detect[1].outcome.v
        /\ K_base64 \in Keys(Envelope) <=>
              /\ Contains(Uploaded.url, SIMULATED)
              /\ FlagIsTrue(Item(job, K_input), K_return_b64)
C6_Witness ==
    /\ ReturnedSuccess
    /\ Uploaded.url = REAL_URL
    /\ FlagIsTrue(Item(job, K_input), K_return_b64)
    /\ K_base64 \notin Keys(Envelope)

PATH_A == <<"/", "c", "o", "m", "f", "y", "u", "i", "/", "o", "u", "t", "p", "u", "t", "/",
    "a", ".", "p", "n", "g">>
PATH_B == <<"/", "c", "o", "m", "f", "y", "u", "i", "/", "o", "u", "t", "p", "u", "t", "/",
    "b", ".", "p", "n", "g">>
PATH_NONE == <<"/", "c", "o", "m", "f", "y", "u", "i", "/", "o", "u", "t", "p", "u", "t", "/",
    "{", "}">>

\* C7: when the file at COMFY_OUTPUT_PATH/<resolved filename> is not on disk,
\* handler returns an error envelope naming that path, and the upload, the
\* classifier and the encoder are not called.
C7_MissingArtifact ==
    (post.exists # <<>> /\ ~post.exists[1].found) =>
        /\ Done /\ Len(post.exists) = 1
        /\ result = ErrorOf(MSG_NO_IMAGE \o post.exists[1].path)
        /\ output_images = JStr(FILE_A) => post.exists[1].path = PATH_A
        /\ output_images = JStr(FILE_B) => post.exists[1].path = PATH_B
        /\ output_images = JDict(<<>>) => post.exists[1].path = PATH_NONE
        /\ NoPostProcessing
C7_Witness ==
    /\ Done /\ post.exists # <<>> /\ ~post.exists[1].found
    /\ output_images = JStr(FILE_B)

\* the outputs section of the completed history, once the filename is resolved
Resolved == output_images # Undef
OutputNodes == DictGet(Item(history, comfy_job_id.s), K_outputs).items
HasImageList(n) == HasKey(OutputNodes[n].v, K_images)
ImageList(n) == IF HasImageList(n) THEN Item(OutputNodes[n].v, K_images).xs ELSE <<>>
ListsAnImage == \E n \in 1..Len(OutputNodes) : ImageList(n) # <<>>
LastNodeWithList == CHOOSE n \in 1..Len(OutputNodes) :
    HasImageList(n) /\ \A m \in (n + 1)..Len(OutputNodes) : ~HasImageList(m)
LastNodeWithImage == CHOOSE n \in 1..Len(OutputNodes) :
    ImageList(n) # <<>> /\ \A m \in (n + 1)..Len(OutputNodes) : ImageList(m) = <<>>
LastFilename(n) == Item(ImageList(n)[Len(ImageList(n))], K_filename)
OnePathChecked(f) ==
    /\ Len(post.exists) <= 1 /\ Len(post.upload) <= 1
    /\ \A n \in 1..Len(post.exists) : post.exists[n].path = COMFY_OUTPUT_PATH \o <<"/">> \o f.s
    /\ \A n \in 1..Len(post.upload) : post.upload[n].path = COMFY_OUTPUT_PATH \o <<"/">> \o f.s
    /\ pc \in {"upload", "nsfw", "b64"} \/ Done => Len(post.exists) = 1
    /\ ReturnedSuccess => Len(post.upload) = 1 /\ Item(Envelope, K_url) = JStr(Uploaded.url)

\* C8 as stated: the resolved filename is that of the last image of the last
\* node that has an "images" list.
C8_LastOfLastListNode ==
    (Resolved /\ ListsAnImage) =>
        /\ ImageList(LastNodeWithList) # <<>>
        /\ output_images = LastFilename(LastNodeWithList)

\* C8, amended: the resolved filename is that of the last image of the last
\* node whose "images" list is not empty, that is the last image in iteration
\* order; it is one filename, and one path, of that filename, is checked,
\* uploaded and reported.
C8_LastInIterationOrder ==
    (Resolved /\ ListsAnImage) =>
        /\ output_images = LastFilename(LastNodeWithImage)
        /\ output_images.t = "str"
        /\ OnePathChecked(output_images)
C8_Witness ==
    /\ ReturnedSuccess /\ ListsAnImage
    /\ Len(OutputNodes) = 2 /\ ImageList(1) # <<>> /\ HasImageList(2) /\ ImageList(2) = <<>>
    /\ output_images = LastFilename(1)

\* C9: job_prop_to_bool returns true iff the raw value under the name is the
\* boolean true or a string that, lowercased and trimmed, is one of "true", "t",
\* "yes", "y", "ok", "1"; for an absent key and any other value it returns false.
C9_FlagParsing ==
    (pc = "done" /\ arg # Undef) => result = Returned(JBool(FlagIsTrue(arg, K_return_nsfw)))
C9_Witness ==
    /\ pc = "done" /\ arg # Undef /\ HasKey(arg, K_return_nsfw)
    /\ Item(arg, K_return_nsfw).t = "str"
    /\ Item(arg, K_return_nsfw).s \notin TrueWords
    /\ Len(Item(arg, K_return_nsfw).s) <= MaxFlagLen
    /\ result = Returned(JBool(TRUE))

Failed(outcome) == outcome \in {"503", "RequestException"}

\* C10: check_server makes at most `retries` GETs; it returns true at the first
\* response with status 200 and makes no GET after it; a transport failure or
\* another status uses up one attempt and is not surfaced; it returns false iff
\* `retries` attempts were made and none got status 200.
C10_CheckServer ==
    (cs # NoFrame /\ cs.caller = "direct") =>
        /\ net.get = Len(cs.log) /\ net.get <= cs.retries
        /\ \A n \in 1..(Len(cs.log) - 1) : Failed(cs.log[n])
        /\ (cs.log # <<>> /\ cs.log[Len(cs.log)] = "200") =>
               (Done /\ result = Returned(JBool(TRUE)))
        /\ (cs.log # <<>> /\ Failed(cs.log[Len(cs.log)])) =>
               \/ pc = "cs_sleep" /\ cs.i = Len(cs.log) - 1
               \/ pc = "cs_get" /\ cs.i = Len(cs.log)
               \/ Done /\ Len(cs.log) = cs.retries
        /\ Done =>
               /\ result.kind = "return"
               /\ result.v \in {JBool(TRUE), JBool(FALSE)}
               /\ result.v = JBool(TRUE) <=>
                      (cs.log # <<>> /\ cs.log[Len(cs.log)] = "200")
               /\ result.v = JBool(FALSE) <=>
                      (net.get = cs.retries /\ \A n \in 1..Len(cs.log) : Failed(cs.log[n]))
C10_Witness ==
    /\ Done /\ cs # NoFrame /\ cs.caller = "direct"
    /\ result = Returned(JBool(TRUE))
    /\ Len(cs.log) = 3 /\ cs.log[1] = "RequestException" /\ cs.log[2] = "503"
    /\ net.get < cs.retries

\* C11: the prompt POST is made at most once; when it fails in transport, its
\* response is not valid JSON, or the response has no "prompt_id", handler
\* returns an error envelope carrying the cause, with no second POST and no
\* history GET.
C11_SubmitOnce ==
    /\ net.post <= 1 /\ Len(net.queued) = net.post
    /\ (net.post = 1 /\ net.queued[1].kind = "raise") =>
           /\ Done /\ net.hist = 0
           /\ result = ErrorOf(MSG_QUEUE \o net.queued[1].str)
           /\ net.queued[1].str \in {E_URLERROR, E_JSONDECODE, E_KEY_PROMPT_ID, E_LIST_INDEX}
    /\ (net.post = 1 /\ net.queued[1].kind = "return") => net.queued[1].v = JStr(PROMPT_ID)
    /\ net.hist > 0 => (net.post = 1 /\ net.queued[1].kind = "return")
C11_Witness ==
    /\ Done /\ net.post = 1 /\ net.hist = 0
    /\ result = ErrorOf(MSG_QUEUE \o E_KEY_PROMPT_ID)

BODY == <<"{", "\"", "p", "r", "o", "m", "p", "t", "\"", ":", " ", "{", "\"", "3", "\"", ":",
    " ", "{", "\"", "c", "l", "a", "s", "s", "_", "t", "y", "p", "e", "\"", ":", " ", "\"",
    "X", "\"", "}", "}", "}">>

\* C12: for a workflow given as a JSON text that decodes to a map, the body
\* posted is {"prompt": W}, W being one decode of the text, the body posted for
\* W given directly; a text whose one decode is not a map, a doubly encoded
\* workflow included, is rejected and not decoded again.
C12_DecodedOnce ==
    /\ \A n \in 1..Len(net.posted) :
           /\ net.posted[n] = BODY
           /\ json_loads(net.posted[n]).v = Dict1(K_prompt, WORKFLOW)
           /\ RawWorkflow \in {WORKFLOW, JStr(TEXT_WORKFLOW)}
    /\ pc # "handler" /\ HasMapInput /\ HasKey(Item(job, K_input), K_workflow)
          /\ RawWorkflow = JStr(TEXT_WORKFLOW) => workflow = WORKFLOW
    /\ HasMapInput /\ HasKey(Item(job, K_input), K_workflow)
          /\ RawWorkflow \in {JStr(TEXT_DOUBLE), JStr(TEXT_LIST), JStr(TEXT_NUMBER),
                              JStr(TEXT_NULL)} =>
              /\ NoNetworkCall /\ net.posted = <<>>
              /\ Done => result = ErrorOf(MSG_NOT_OBJECT)
C12_Witness ==
    /\ net.posted = <<BODY>>
    /\ RawWorkflow = JStr(TEXT_WORKFLOW)

ProbeReturned == cs \in {Popped(TRUE), Popped(FALSE)}
IssuesProbe == net'.get # net.get
IssuesPost == net'.post # net.post
IssuesHistory == net'.hist # net.hist
InvokesUpload == post'.upload # post.upload
\* the section under "outputs" is not empty
NonEmptySection(v) ==
    \/ v.t = "dict" /\ Len(v.items) > 0
    \/ v.t = "list" /\ Len(v.xs) > 0
    \/ v.t = "str" /\ Len(v.s) > 0
    \/ v.t = "num" /\ v.n # 0
    \/ v.t = "bool" /\ v.b
\* the history response h shows the prompt id completed
Completes(h, id) ==
    /\ h # Undef /\ id # Undef
    /\ h.t = "dict" /\ id.t = "str"
    /\ \E n \in 1..Len(h.items) :
         /\ h.items[n].k = id.s
         /\ h.items[n].v.t = "dict"
         /\ \E m \in 1..Len(h.items[n].v.items) :
              /\ h.items[n].v.items[m].k = K_outputs
              /\ NonEmptySection(h.items[n].v.items[m].v)

\* C13: the external calls of one job come in the order probe, POST, history,
\* upload: no POST before check_server returned (and no probe GET after it), no
\* history GET before the POST's response gave a prompt id, no upload before a
\* history response showed completion and the file was found on disk.
C13_CallOrder ==
    [][/\ IssuesProbe => (~ProbeReturned /\ net.post = 0 /\ net.hist = 0)
       /\ IssuesPost => (ProbeReturned /\ net.hist = 0 /\ post = NoPost)
       /\ IssuesHistory =>
             /\ net.post = 1 /\ net.queued[1].kind = "return"
             /\ comfy_job_id = net.queued[1].v /\ comfy_job_id.t = "str"
             /\ post = NoPost
       /\ InvokesUpload =>
             /\ net.hist >= 1 /\ Completes(history, comfy_job_id)
             /\ post.exists = <<[path |-> local_image_path, found |-> TRUE]>>
             /\ post'.upload[1].path = local_image_path]_vars
C13_Witness ==
    /\ Len(post.upload) = 1 /\ net.get = COMFY_API_AVAILABLE_MAX_RETRIES
    /\ cs = Popped(FALSE) /\ net.post = 1 /\ net.hist = 2

Validated ==
    /\ HasMapInput /\ HasKey(Item(job, K_input), K_workflow)
    /\ RawWorkflow \in ValidWorkflows

\* C14: for a job that passed validation the POST is made whether check_server
\* returned true or false: when the probe has returned, the next step is the
\* POST, and a job that ended after validation has made it; the probe's false
\* ends no job and yields no envelope.
C14_ProbeNeverAborts ==
    /\ [](/\ ProbeReturned => ((pc = "queue" /\ net.post = 0) \/ net.post = 1)
          /\ (Validated /\ Done) => (ProbeReturned /\ net.post = 1)
          /\ (Validated /\ net.post = 0) => result = Running)
    /\ [][pc = "queue" => IssuesPost]_vars
    /\ [][(pc = "cs_get" /\ pc' # "cs_sleep") =>
             (pc' = "queue" /\ result' = Running /\ ProbeReturned')]_vars
C14_Witness ==
    /\ ReturnedSuccess /\ Validated
    /\ cs = Popped(FALSE) /\ net.get = COMFY_API_AVAILABLE_MAX_RETRIES
    /\ net.post = 1

\* C15: the poll ends with completion at the first history response in which
\* the prompt id is a key whose entry has a non-empty outputs section, and at
\* no other: every earlier response was not completing, the number of history
\* GETs is the index of that response, and no history GET follows it.
C15_CompletionDetected ==
    /\ [](/\ pc = "poll_sleep" => ~Completes(history, comfy_job_id)
          /\ pc = "resolve" =>
                (Completes(history, comfy_job_id) /\ net.hist = retries + 1)
          /\ Resolved => Completes(history, comfy_job_id)
          /\ post # NoPost => Completes(history, comfy_job_id))
    /\ [][/\ (IssuesHistory /\ net.hist > 0) => ~Completes(history, comfy_job_id)
          /\ (IssuesHistory /\ history' # history /\ Completes(history', comfy_job_id)) =>
                 pc' = "resolve"
          /\ (pc = "poll" /\ pc' = "poll_sleep") =>
                 ~Completes(history', comfy_job_id)
          /\ Completes(history, comfy_job_id) => ~IssuesHistory]_vars
C15_Witness ==
    /\ pc = "resolve" /\ net.hist = 3 /\ retries = 2
    /\ history = HistoryOf(PROMPT_ID, Dict1(K_outputs, Dict1(NODE_9, Images(<<FILE_A>>))))

\* C16: a history GET that raises (transport or parse) ends the job in an error
\* envelope carrying the cause: no history GET follows, the rest of the poll
\* budget is left unused, and nothing is uploaded, classified or encoded.
C16_PollExceptionEnds ==
    net.failed # <<>> =>
        /\ Done /\ Len(net.failed) = 1
        /\ net.failed[1] \in {E_URLERROR, E_JSONDECODE}
        /\ result = ErrorOf(MSG_WAIT \o net.failed[1])
        /\ net.hist = retries + 1
        /\ NoPostProcessing /\ post.exists = <<>>
C16_Witness ==
    /\ Done /\ net.failed = <<E_JSONDECODE>>
    /\ net.hist = 2 /\ net.hist < COMFY_POLLING_MAX_RETRIES

\* C17: every job reaches Done (each call returning or raising, each sleep
\* ending): the probe makes at most COMFY_API_AVAILABLE_MAX_RETRIES GETs, the
\* poll at most COMFY_POLLING_MAX_RETRIES, and each failed attempt advances its
\* counter by one.
C17_Terminates ==
    /\ <>Done
    /\ [](/\ net.get <= COMFY_API_AVAILABLE_MAX_RETRIES
          /\ net.hist <= COMFY_POLLING_MAX_RETRIES
          /\ pc \in {"cs_get", "cs_sleep"} => cs.i <= cs.retries
          /\ pc \in {"poll", "poll_sleep"} => retries <= COMFY_POLLING_MAX_RETRIES)
    /\ [][/\ pc = "cs_sleep" => (cs'.i = cs.i + 1 /\ pc' = "cs_get")
          /\ pc = "poll_sleep" => (retries' = retries + 1 /\ pc' = "poll")
          /\ Done => UNCHANGED vars]_vars
C17_Witness ==
    /\ Done /\ result = ErrorOf(MSG_MAX_RETRIES)
    /\ net.get = COMFY_API_AVAILABLE_MAX_RETRIES
    /\ net.hist = COMFY_POLLING_MAX_RETRIES

\* C18: in both retry loops the sleep lies between attempts: after a sleep the
\* loop makes another GET, so a probe or a poll of n attempts has slept n-1
\* times, and none sleeps after its last attempt.
C18_SleepBetweenAttempts ==
    /\ (pc = "cs_get" /\ slept.probe > 0) => cs.i < cs.retries
    /\ (pc = "poll" /\ slept.poll > 0) => retries < COMFY_POLLING_MAX_RETRIES
    /\ (ProbeReturned /\ net.get > 0) => slept.probe = net.get - 1
    /\ (pc \notin {"poll", "poll_sleep"} /\ net.hist > 0) => slept.poll = net.hist - 1

\* C19: when the completed history has a non-empty outputs section in which no
\* node lists an image, nothing is uploaded and the job ends in an error
\* envelope, whatever files the output directory holds.
C19_OnlyReportedArtifacts ==
    (Resolved /\ ~ListsAnImage) =>
        /\ post.upload = <<>>
        /\ Done => ReturnedError

\* C20: a job that ends in an error envelope has called none of the upload, the
\* classifier and the encoder; in any execution each is called at most once.
C20_NoPostProcessingOnError ==
    /\ ReturnedError => NoPostProcessing
    /\ Len(post.upload) <= 1 /\ Len(post.detect) <= 1 /\ Len(post.encode) <= 1
    /\ Len(post.exists) <= 1
    /\ post.upload # <<>> => (post.exists # <<>> /\ post.exists[1].found)
    /\ post.detect # <<>> => (post.upload # <<>> /\ post.upload[1].outcome.ok)
    /\ post.encode # <<>> => (post.upload # <<>> /\ post.upload[1].outcome.ok)
C20_Witness ==
    /\ ReturnedError /\ NoPostProcessing
    /\ Len(post.exists) = 1 /\ ~post.exists[1].found
    /\ net.hist = COMFY_POLLING_MAX_RETRIES
    /\ job_prop_to_bool(job_input, K_return_nsfw)

=============================================================================
